---------------------------- MODULE Spec2Model ----------------------------
(***************************************************************************)
(* A model of update_epg.py: the playlist index, the per-feed two-pass     *)
(* merge (process_single_epg), the coordinator loop of main(), and the     *)
(* pure helper normalize_name.                                             *)
(*                                                                         *)
(* Text is modelled as a sequence of one-character strings, so that        *)
(* normalisation and the difflib similarity ratio are computed character   *)
(* by character, as the code computes them.                                *)
(***************************************************************************)
EXTENDS Integers, Sequences, FiniteSets, TLC

(***************************************************************************)
(* Characters                                                              *)
(***************************************************************************)
UpperSeq ==
  << "A","B","C","D","E","F","G","H","I","J","K","L","M",
     "N","O","P","Q","R","S","T","U","V","W","X","Y","Z" >>

LowerSeq ==
  << "a","b","c","d","e","f","g","h","i","j","k","l","m",
     "n","o","p","q","r","s","t","u","v","w","x","y","z" >>

DigitSeq == << "0","1","2","3","4","5","6","7","8","9" >>

SeqRange(s) == { s[i] : i \in 1..Len(s) }

IndexOf(s, c) == CHOOSE i \in 1..Len(s) : s[i] = c

UpperChars == SeqRange(UpperSeq)

AlnumChars == SeqRange(UpperSeq) \cup SeqRange(LowerSeq) \cup SeqRange(DigitSeq)

\* [a-zA-Z0-9]: the characters NON_ALNUM_PATTERN keeps
IsAlnum(c) == c \in AlnumChars

\* \w of the re module, on the ASCII characters of the model
IsWord(c) == IsAlnum(c) \/ c = "_"

\* \s of the re module, on the ASCII characters of the model
IsSpace(c) == c \in {" ", "\t"}

\* str.lower() on one character; also the case folding of re.IGNORECASE
LowerOf == [ c \in UpperChars |-> LowerSeq[IndexOf(UpperSeq, c)] ]

Lower(c) == IF c \in UpperChars THEN LowerOf[c] ELSE c

\* the order of the code points of the characters a CanonicalKey is made of
AlnumOrder == DigitSeq \o LowerSeq

OrdOf == [ c \in SeqRange(AlnumOrder) |-> IndexOf(AlnumOrder, c) ]

Ord(c) == IF c \in DOMAIN OrdOf THEN OrdOf[c] ELSE 0

(***************************************************************************)
(* normalize_name                                                          *)
(***************************************************************************)
\* one element of a pattern: "\\s" stands for the class \s, any other
\* element for that literal character, compared ignoring case
PatMatches(p, c) == IF p = "\\s" THEN IsSpace(c) ELSE Lower(p) = Lower(c)

\* the alternatives of PREFIX_PATTERN, in the order the regex tries them
PREFIX_PATTERN ==
  << <<"F","R",":">>, <<"U","K"," ","|">>, <<"D","E"," ","-">>,
     <<"E","S",":">>, <<"I","T",":">>, <<"U","S",":">>, <<"C","A",":">>,
     <<"S","A",":">>, <<"F","R","\\s">>, <<"U","K","\\s">>, <<"D","E","\\s">> >>

\* the alternatives of SUFFIX_PATTERN, in the order the regex tries them
SUFFIX_PATTERN ==
  << <<"F","H","D">>, <<"H","D">>, <<"S","D">>, <<"H","2","6","5">>,
     <<"V","I","P">>, <<"4","K">>, <<"B","a","c","k","u","p">>,
     <<"H","E","V","C">>, <<"A","V","C">> >>

\* the alternative pat matches name at position i (1-based)
MatchAt(pat, name, i) ==
  /\ i + Len(pat) - 1 <= Len(name)
  /\ \A d \in 1..Len(pat) : PatMatches(pat[d], name[i + d - 1])

\* position i of name holds a \w character
WordAt(name, i) == i >= 1 /\ i <= Len(name) /\ IsWord(name[i])

\* \b between positions i-1 and i of name
WordBoundary(name, i) == WordAt(name, i - 1) # WordAt(name, i)

\* the alternative the regex takes: the first that matches
FirstHit(hits) == CHOOSE n \in hits : \A m \in hits : n <= m

\* the alternatives of PREFIX_PATTERN that match at the start of name
PrefixHits(name) ==
  { n \in 1..Len(PREFIX_PATTERN) : MatchAt(PREFIX_PATTERN[n], name, 1) }

DropPrefix(name, hits) ==
  IF hits = {} THEN name
  ELSE SubSeq(name, Len(PREFIX_PATTERN[FirstHit(hits)]) + 1, Len(name))

\* PREFIX_PATTERN.sub("", name): the pattern is anchored, so it matches at
\* most once, at the start
StripPrefix(name) == DropPrefix(name, PrefixHits(name))

\* the alternatives of SUFFIX_PATTERN that match at position i between two \b
SuffixHits(name, i) ==
  { n \in 1..Len(SUFFIX_PATTERN) :
      /\ WordBoundary(name, i)
      /\ MatchAt(SUFFIX_PATTERN[n], name, i)
      /\ WordBoundary(name, i + Len(SUFFIX_PATTERN[n])) }

RECURSIVE StripSuffixFrom(_, _)
\* one step of the scan: a match at i is dropped, another character is kept
SuffixStep(name, i, hits) ==
  IF hits = {} THEN << name[i] >> \o StripSuffixFrom(name, i + 1)
  ELSE StripSuffixFrom(name, i + Len(SUFFIX_PATTERN[FirstHit(hits)]))

\* SUFFIX_PATTERN.sub("", name) from position i on: a left-to-right scan that
\* drops every non-overlapping match
StripSuffixFrom(name, i) ==
  IF i > Len(name) THEN << >> ELSE SuffixStep(name, i, SuffixHits(name, i))

StripSuffix(name) == StripSuffixFrom(name, 1)

\* NON_ALNUM_PATTERN.sub("", name)
StripNonAlnum(name) == SelectSeq(name, IsAlnum)

\* str.lower()
LowerCase(name) == [ i \in 1..Len(name) |-> Lower(name[i]) ]

\* normalize_name(name); the empty sequence is both "" and None
normalize_name(name) ==
  IF name = << >> THEN << >>
  ELSE LowerCase(StripNonAlnum(StripSuffix(StripPrefix(name))))

(***************************************************************************)
(* The names of the runs, and normalize_name and the match count M on them *)
(* computed once                                                           *)
(***************************************************************************)
\* the labels of the playlist entries; they normalise to abc, abcd and xy
PlaylistLabels == { <<"a","b","c"," ","H","D">>, <<"A","B","C","D">>, <<"F","R",":","x","y">> }

\* the display names of the feed channels; << >> is a channel with no
\* display-name text
FeedNames == { <<"A","B","C">>, <<"a","b","c","d">>, <<"X","Y">>, << >> }

\* table[key], or otherwise when the table has no such key
Lookup(table, key, otherwise) == IF key \in DOMAIN table THEN table[key] ELSE otherwise

\* the labels and display names of the scenario runs: the keys beinsport1,
\* bbc and abc, an empty label and a label that normalises to the empty key,
\* and the names beinsports1, abc and one that normalises to the empty key
ScenarioLabels ==
  { <<"b","e","i","n","s","p","o","r","t","1">>, <<"b","b","c">>,
    <<"a","b","c"," ","H","D">>, << >>, <<"H","D">> }

ScenarioNames ==
  { <<"b","e","i","n","s","p","o","r","t","s","1">>, <<"A","B","C">>, <<"H","D">> }

KnownNames == PlaylistLabels \cup FeedNames \cup ScenarioLabels \cup ScenarioNames

NormTable == [ name \in KnownNames |-> normalize_name(name) ]

\* normalize_name(name), looked up when the name is one of the runs' names
Normalized(name) == Lookup(NormTable, name, normalize_name(name))

Image(f) == { f[x] : x \in DOMAIN f }

Pairs(S) == S \X S

(***************************************************************************)
(* difflib.get_close_matches(word, possibilities, n=1, cutoff)             *)
(***************************************************************************)
\* FUZZY_MATCH_CUTOFF = 0.85, as the fraction CutoffNum / CutoffDen
CutoffNum == 85

CutoffDen == 100

\* the matching blocks a[i..i+k-1] = b[j..j+k-1] inside a[alo..ahi], b[blo..bhi]
Blocks(a, b, alo, ahi, blo, bhi) ==
  { t \in (alo..ahi) \X (blo..bhi) \X (1..(ahi - alo + 1)) :
      /\ t[1] + t[3] - 1 <= ahi
      /\ t[2] + t[3] - 1 <= bhi
      /\ \A d \in 0..(t[3] - 1) : a[t[1] + d] = b[t[2] + d] }

\* the longest block; of those the one that starts earliest in a; of those
\* the one that starts earliest in b
BestBlock(bs, alo, blo) ==
  IF bs = {} THEN <<alo, blo, 0>>
  ELSE CHOOSE t \in bs : \A o \in bs :
         \/ t[3] > o[3]
         \/ t[3] = o[3] /\ t[1] < o[1]
         \/ t[3] = o[3] /\ t[1] = o[1] /\ t[2] <= o[2]

\* SequenceMatcher.find_longest_match
LongestMatch(a, b, alo, ahi, blo, bhi) ==
  BestBlock(Blocks(a, b, alo, ahi, blo, bhi), alo, blo)

RECURSIVE MatchCount(_, _, _, _, _, _)
\* the block m, and the matches to its left and to its right
AroundBlock(a, b, alo, ahi, blo, bhi, m) ==
  IF m[3] = 0 THEN 0
  ELSE m[3]
       + MatchCount(a, b, alo, m[1] - 1, blo, m[2] - 1)
       + MatchCount(a, b, m[1] + m[3], ahi, m[2] + m[3], bhi)

\* the sum of the sizes of SequenceMatcher.get_matching_blocks()
MatchCount(a, b, alo, ahi, blo, bhi) ==
  IF alo > ahi \/ blo > bhi THEN 0
  ELSE AroundBlock(a, b, alo, ahi, blo, bhi, LongestMatch(a, b, alo, ahi, blo, bhi))

MatchTable ==
  [ p \in Pairs(Image(NormTable)) |-> MatchCount(p[1], p[2], 1, Len(p[1]), 1, Len(p[2])) ]

\* M of SequenceMatcher(None, a, b).ratio() = 2*M/T, looked up when both are
\* keys of the runs' names
Matches(a, b) == Lookup(MatchTable, <<a, b>>, MatchCount(a, b, 1, Len(a), 1, Len(b)))

\* a cutoff of 0.6
AtLeastLowerCutoff(M, T) == IF T = 0 THEN TRUE ELSE 2 * M * 10 >= 6 * T

\* 2*M/T >= cutoff, in integers; ratio() of two empty sequences is 1.0
AtLeastCutoff(M, T) == IF T = 0 THEN TRUE ELSE 2 * M * CutoffDen >= CutoffNum * T

\* SequenceMatcher(None, a, b).ratio() >= cutoff
RatioAtLeastCutoff(a, b) == AtLeastCutoff(Matches(a, b), Len(a) + Len(b))

\* a < b in the order of Python strings
SeqLess(a, b) ==
  \E i \in 1..(Len(a) + 1) :
    /\ i <= Len(b)
    /\ \A j \in 1..(i - 1) : a[j] = b[j]
    /\ \/ i = Len(a) + 1
       \/ Ord(a[i]) < Ord(b[i])

\* (rx, x) < (ry, y) as Python compares tuples, the ratios cross-multiplied
TupleLess(mx, x, my, y) == mx < my \/ (mx = my /\ SeqLess(x, y))

\* (ratio(x, word), x) < (ratio(y, word), y): the order heapq.nlargest ranks by
ScoreLess(word, x, y) ==
  TupleLess(Matches(x, word) * (Len(y) + Len(word)), x,
            Matches(y, word) * (Len(x) + Len(word)), y)

\* the greatest of the candidates
Best(word, good) == { x \in good : \A y \in good : y = x \/ ScoreLess(word, y, x) }

\* get_close_matches(word, possibilities, n=1, cutoff=FUZZY_MATCH_CUTOFF) as
\* the set of its results, empty or one name.  The quick_ratio filters are
\* upper bounds of ratio() and reject nothing that ratio() accepts.
get_close_matches(word, possibilities) ==
  Best(word, { x \in possibilities : RatioAtLeastCutoff(x, word) })

(***************************************************************************)
(* The inputs of a run                                                     *)
(***************************************************************************)
\* the feed list of the program, here the first two of its entries
EPG_URLS == << "epg-fr", "epg-de" >>

\* the size of the inputs of a run: the entries of the playlist, the channel
\* records of the feeds and the failing feeds, all together
MaxSize == 4

\* the programme records of a feed that reference one SourceID
ProgsPerSource == 1

TargetIDs == << "100", "101" >>

SourceIDs == << "s1", "s2" >>

\* what a URL serves: status "none" when download_url returns None (an error,
\* a timeout, no bytes), "bad" for bytes that gzip cannot decompress or the
\* XML parser cannot parse, "ok" for a document
Doc(status, channels, programmes) ==
  [ status |-> status, channels |-> channels, programmes |-> programmes ]

NoData == Doc("none", << >>, << >>)

BadData == Doc("bad", << >>, << >>)

SeqsUpTo(S, n) == UNION { [1..m -> S] : m \in 0..n }

\* the orders in which a loop can visit the members of a set
Orders(S) ==
  { f \in [1..Cardinality(S) -> S] : \A i, j \in 1..Cardinality(S) : f[i] = f[j] => i = j }

PlaylistEntry == [ tvg_id : SeqRange(TargetIDs), channel_name : PlaylistLabels ]


FeedChannel == [ id : SeqRange(SourceIDs), display_name : FeedNames ]

RECURSIVE Repeat(_, _)
Repeat(x, n) == IF n = 0 THEN << >> ELSE << x >> \o Repeat(x, n - 1)

RECURSIVE ProgrammesFrom(_)
\* the programme records of a feed: ProgsPerSource for each SourceID, whether
\* or not the feed has a channel of that id
ProgrammesFrom(i) ==
  IF i > Len(SourceIDs) THEN << >>
  ELSE Repeat(SourceIDs[i], ProgsPerSource) \o ProgrammesFrom(i + 1)

FeedDoc(cs) == Doc("ok", cs, ProgrammesFrom(1))

\* a playlist document: its entries are its channels
PlaylistDoc(entries) == Doc("ok", entries, << >>)

\* the size of what a URL serves: the records of a document, 1 for a failure
\* and for a document of no records that is the playlist
FeedSize(d) == IF d.status = "ok" THEN Len(d.channels) ELSE 1

PlaylistSize(d) == IF d.channels = << >> THEN 1 ELSE Len(d.channels)

\* what a feed URL can serve within size n
DocsWithin(n) ==
  { FeedDoc(cs) : cs \in SeqsUpTo(FeedChannel, n) }
  \cup (IF n >= 1 THEN { NoData, BadData } ELSE {})

\* what a feed URL can serve within each size, computed once; the playlist
\* takes one of MaxSize
DocTable == [ n \in 0..(MaxSize - 1) |-> DocsWithin(n) ]

RECURSIVE WebsWithin(_, _)
\* what k feed URLs can serve within size n all together
WebsWithin(k, n) ==
  IF k = 0 THEN { << >> }
  ELSE UNION { { Append(w, d) : w \in WebsWithin(k - 1, n - FeedSize(d)) } :
               d \in DocTable[n] }

\* what M3U_URL can serve within size MaxSize.  The program only compares
\* TargetIDs for equality, so the first entry is given the first of them.
PlaylistDocs ==
  { NoData }
  \cup { PlaylistDoc(es) :
         es \in { x \in SeqsUpTo(PlaylistEntry, MaxSize) : x = << >> \/ x[1].tvg_id = TargetIDs[1] } }

\* what the feed URLs can serve within each size, computed once
WebTable == [ n \in 0..(MaxSize - 1) |-> WebsWithin(Len(EPG_URLS), n) ]

\* the inputs of the runs: what M3U_URL serves and what the feed URLs serve,
\* of size MaxSize at most all together
Inputs ==
  UNION { { [ m3u |-> p, epg |-> w ] : w \in WebTable[MaxSize - PlaylistSize(p)] } :
          p \in PlaylistDocs }

\* the override tables of a run: none, or one entry
OverrideTables == { << >> } \cup { [ k \in { <<"a","b","c">> } |-> SourceIDs[1] ] }

\* the keys of the labels of a playlist document
LabelKeys(d) == { Normalized(d.channels[i].channel_name) : i \in 1..Len(d.channels) }

(***************************************************************************)
(* State                                                                   *)
(***************************************************************************)
VARIABLES
  m3u_web,           \* what M3U_URL serves: a playlist, or NoData
  epg_web,           \* what each URL of EPG_URLS serves
  MANUAL_OVERRIDES,  \* the override table, fixed during a run
  pc,                \* where main() is
  m3u_map,           \* CanonicalKey -> [ids, original_names]
  unmatched_keys,    \* the UnresolvedSet
  total_groups,
  pending,           \* the submitted downloads that have not completed
  downloaded_epgs,   \* (url, data) in the order the downloads completed
  next_epg,          \* the position of the processing loop in downloaded_epgs
  source_to_dest_map,\* the ResolutionMap of the latest process_single_epg call
  outfile,           \* the records written to the merged output, in order
  report,            \* the missing report, once written
  calls,             \* the process_single_epg calls so far: url, the set before, the keys returned
  norm_in,           \* normalize_name: a label, its key, and the key of its key
  norm_out,
  norm_again,
  norm_other,        \* normalize_name: a second label, compared with the first
  norm_pc

vars ==
  << m3u_web, epg_web, MANUAL_OVERRIDES, pc, m3u_map, unmatched_keys, total_groups,
     pending, downloaded_epgs, next_epg, source_to_dest_map, outfile, report, calls,
     norm_in, norm_out, norm_again, norm_other, norm_pc >>

runvars ==
  << m3u_web, epg_web, MANUAL_OVERRIDES, pc, m3u_map, unmatched_keys, total_groups,
     pending, downloaded_epgs, next_epg, source_to_dest_map, outfile, report, calls >>

normvars == << norm_in, norm_out, norm_again, norm_other, norm_pc >>

(***************************************************************************)
(* The playlist index (main, step 1)                                       *)
(***************************************************************************)
MapPut(map, k, v) == [ x \in DOMAIN map \cup {k} |-> IF x = k THEN v ELSE map[x] ]

\* m3u_map[norm] = {'ids': [], 'original_names': []}
EmptyGroup == [ ids |-> << >>, original_names |-> << >> ]

\* an append without the membership test
AddTargetIDAgain(ids, tvg_id) == Append(ids, tvg_id)

\* if tvg_id not in m3u_map[norm]['ids']: m3u_map[norm]['ids'].append(tvg_id)
AddTargetID(ids, tvg_id) ==
  IF tvg_id \in SeqRange(ids) THEN ids ELSE Append(ids, tvg_id)

AddEntry(group, tvg_id, channel_name) ==
  [ ids            |-> AddTargetID(group.ids, tvg_id),
    original_names |-> Append(group.original_names, channel_name) ]

\* an entry indexed whatever its label normalises to
IndexEntryUnfiltered(map, norm, e) ==
  MapPut(map, norm, AddEntry(Lookup(map, norm, EmptyGroup), e.tvg_id, e.channel_name))

\* one entry: skipped when its label normalises to nothing
IndexEntry(map, norm, e) ==
  IF norm = << >> THEN map
  ELSE MapPut(map, norm, AddEntry(Lookup(map, norm, EmptyGroup), e.tvg_id, e.channel_name))

RECURSIVE IndexEntries(_, _, _)
\* the loop over the playlist entries, from entry i on
IndexEntries(entries, i, map) ==
  IF i > Len(entries) THEN map
  ELSE IndexEntries(entries, i + 1,
                    IndexEntry(map, Normalized(entries[i].channel_name), entries[i]))

ParseM3U(entries) == IndexEntries(entries, 1, << >>)

(***************************************************************************)
(* process_single_epg                                                      *)
(***************************************************************************)
StorageEntry(n_name, c_id, elem) == [ norm |-> n_name, id |-> c_id, elem |-> elem ]

\* a storage that keeps the value a key already holds
StorageKeepFirst(st, entry) ==
  IF \E p \in 1..Len(st) : st[p].norm = entry.norm THEN st ELSE Append(st, entry)

\* temp_channel_storage[n_name] = {'id': c_id, 'elem': elem}: a dict keeps the
\* place of a key it already holds and takes the new value
StoragePut(st, entry) ==
  IF \E p \in 1..Len(st) : st[p].norm = entry.norm
  THEN [ p \in 1..Len(st) |-> IF st[p].norm = entry.norm THEN entry ELSE st[p] ]
  ELSE Append(st, entry)

\* a channel is stored when it has display-name text; elem is the position of
\* the channel record in the feed
StoreChannel(st, c, i) ==
  IF c.display_name # << >>
  THEN StoragePut(st, StorageEntry(Normalized(c.display_name), c.id, i))
  ELSE st

RECURSIVE ScanChannels(_, _, _)
\* pass 1: the scan of the channel records, from record i on
ScanChannels(channels, i, st) ==
  IF i > Len(channels) THEN st
  ELSE ScanChannels(channels, i + 1, StoreChannel(st, channels[i], i))

temp_channel_storage(channels) == ScanChannels(channels, 1, << >>)

\* the ids of the storage entries at these positions
IdsAt(st, ps) == { st[p].id : p \in ps }

\* the first entry of the storage, in dict order, with this id
FirstWithId(st, id) ==
  CHOOSE p \in 1..Len(st) : st[p].id = id /\ \A q \in 1..(p - 1) : st[q].id # id

\* tier 1, manual override: the SourceIDs it yields, none or one
OverrideTier(m3u_key, st, overrides) ==
  IF m3u_key \in DOMAIN overrides
  THEN IdsAt(st, { p \in 1..Len(st) : st[p].id = overrides[m3u_key] })
  ELSE {}

\* tier 2, exact match
ExactTier(m3u_key, st) == IdsAt(st, { p \in 1..Len(st) : st[p].norm = m3u_key })

\* temp_channel_storage[best_match]['id'] for each of the matches
IdsNamed(st, matches) == IdsAt(st, { p \in 1..Len(st) : st[p].norm \in matches })

\* tier 3, fuzzy match against epg_norm_names
FuzzyTier(m3u_key, st) ==
  IdsNamed(st, get_close_matches(m3u_key, { st[p].norm : p \in 1..Len(st) }))

\* "if not match_found": a tier is tried only when those before it found nothing
FirstFound(override, exact, fuzzy) ==
  IF override # {} THEN override ELSE IF exact # {} THEN exact ELSE fuzzy

\* the source_epg_id of a key, as a set: empty when no tier matched
Resolve(m3u_key, st, overrides) ==
  FirstFound(OverrideTier(m3u_key, st, overrides), ExactTier(m3u_key, st),
             FuzzyTier(m3u_key, st))

Record(kind, feed, id, elem, key, src) ==
  [ kind |-> kind, feed |-> feed, id |-> id, elem |-> elem, key |-> key, src |-> src ]

\* the copies of the matched element, one for each target id, in list order;
\* key and src note which key and which source_epg_id the copy was made for
ChannelRecords(url, m3u_key, src, elem, target_ids) ==
  [ n \in 1..Len(target_ids) |-> Record("channel", url, target_ids[n], elem, m3u_key, src) ]

\* a match that leaves the entry a source id already has in the map
WriteMatchKeepFirst(acc, url, m3u_key, src, elem, target_ids) ==
  [ map   |-> IF src \in DOMAIN acc.map THEN acc.map ELSE MapPut(acc.map, src, target_ids),
    out   |-> acc.out \o ChannelRecords(url, m3u_key, src, elem, target_ids),
    found |-> Append(acc.found, m3u_key) ]

\* "4. If Matched, Prepare for Writing", with matched_elem and target_ids
WriteMatch(acc, url, m3u_key, src, elem, target_ids) ==
  [ map   |-> MapPut(acc.map, src, target_ids),
    out   |-> acc.out \o ChannelRecords(url, m3u_key, src, elem, target_ids),
    found |-> Append(acc.found, m3u_key) ]

\* the element retrieved by id, and the target ids of the key
Matched(acc, url, m3u_key, st, index, source_epg_id) ==
  WriteMatch(acc, url, m3u_key, source_epg_id,
             st[FirstWithId(st, source_epg_id)].elem, index[m3u_key].ids)

\* one turn of the matching loop; ids is what the tiers found
MatchKey(acc, url, m3u_key, st, index, ids) ==
  IF ids = {} THEN acc
  ELSE Matched(acc, url, m3u_key, st, index, CHOOSE x \in ids : TRUE)

RECURSIVE MatchKeys(_, _, _, _, _, _, _)
\* the matching loop over list(unmatched_keys), from position i of the order
\* the set is visited in; acc is [map, out, found]
MatchKeys(url, order, i, st, index, overrides, acc) ==
  IF i > Len(order) THEN acc
  ELSE MatchKeys(url, order, i + 1, st, index, overrides,
                 MatchKey(acc, url, order[i], st, index, Resolve(order[i], st, overrides)))

\* a fan-out that stops after the first target id
ProgrammeCopyFirst(url, i, src_channel, target_ids) ==
  << Record("programme", url, target_ids[1], i, << >>, src_channel) >>

\* "Write duplicates for every target ID"
ProgrammeCopies(url, i, src_channel, target_ids) ==
  [ n \in 1..Len(target_ids) |->
      Record("programme", url, target_ids[n], i, << >>, src_channel) ]

\* if src_channel in source_to_dest_map; the other programmes are dropped
ProgrammeOut(url, i, src_channel, map) ==
  IF src_channel \in DOMAIN map
  THEN ProgrammeCopies(url, i, src_channel, map[src_channel])
  ELSE << >>

RECURSIVE ProgrammeRecords(_, _, _, _)
\* the loop of pass 2, from programme i on
ProgrammeRecords(url, programmes, i, map) ==
  IF i > Len(programmes) THEN << >>
  ELSE ProgrammeOut(url, i, programmes[i], map)
       \o ProgrammeRecords(url, programmes, i + 1, map)

\* pass 2, "Only if we found matches in this file"
Pass2(url, programmes, map) ==
  IF DOMAIN map # {} THEN ProgrammeRecords(url, programmes, 1, map) ELSE << >>

\* a map that is not reset between calls
KeptSourceToDestMap(old) == old

\* source_to_dest_map = {} at the start of a call; old is the map of the
\* call before
NewSourceToDestMap(old) == << >>

\* the state of a call before the matching loop
Started(old_map) == [ map |-> NewSourceToDestMap(old_map), out |-> << >>, found |-> << >> ]

\* the programme records written before the channel records
ProgrammesFirst(channel_records, programme_records) == programme_records \o channel_records

\* what one call writes: the channel records of pass 1, then the programme
\* records of pass 2
FeedOutput(channel_records, programme_records) == channel_records \o programme_records

\* a call that returns [] whatever it resolved
ReturnedNothing(found) == << >>

\* return found_keys_in_this_file
Returned(found) == found

\* the call from the end of the matching loop on
Finished(url, programmes, p1) ==
  [ map   |-> p1.map,
    out   |-> FeedOutput(p1.out, Pass2(url, programmes, p1.map)),
    found |-> Returned(p1.found) ]

\* process_single_epg(url_data, unmatched_keys, m3u_map, outfile), the set
\* visited in this order: [map, out, found].  gzip and the XML parser raise
\* before the matching loop starts, so the except branch is reached with
\* nothing written and returns []; the writes to the sink themselves are
\* taken to succeed.
process_single_epg(url_data, order, index, overrides, old_map) ==
  IF url_data.data.status = "bad"
  THEN Started(old_map)
  ELSE Finished(url_data.url, url_data.data.programmes,
                MatchKeys(url_data.url, order, 1,
                          temp_channel_storage(url_data.data.channels),
                          index, overrides, Started(old_map)))

(***************************************************************************)
(* main                                                                    *)
(***************************************************************************)
\* the least of the keys in the order of Python strings
Least(S) == CHOOSE k \in S : \A o \in S : o = k \/ SeqLess(k, o)

RECURSIVE SortedKeys(_)
LeastFirst(k, S) == << k >> \o SortedKeys(S \ {k})

\* sorted(list(unmatched_keys))
SortedKeys(S) == IF S = {} THEN << >> ELSE LeastFirst(Least(S), S)

\* a failed download that loses the downloads collected before it
LostOnFailure(downloaded, url, data) ==
  IF data.status = "none" THEN << >>
  ELSE Append(downloaded, [ url |-> url, data |-> data ])

\* if data: downloaded_epgs.append((url, data))
Collected(downloaded, url, data) ==
  IF data.status = "none" THEN downloaded
  ELSE Append(downloaded, [ url |-> url, data |-> data ])

\* an update that discards nothing
DiscardNothing(unmatched, found) == unmatched

\* for k in found: unmatched_keys.discard(k)
Discard(unmatched, found) == unmatched \ SeqRange(found)

\* a loop without the break
AlwaysContinues(unmatched) == TRUE

\* "if not unmatched_keys: break" did not leave the loop
LoopContinues(unmatched) == unmatched # {}

\* a report that lists no key
ReportNoLines(keys, index) == << >>

\* the lines under MISSING CHANNELS
ReportLines(keys, index) ==
  [ n \in 1..Len(keys) |-> [ key |-> keys[n], name |-> index[keys[n]].original_names[1] ] ]

\* the missing report
MissingReport(total, unmatched, index) ==
  [ total   |-> total,
    matched |-> total - Cardinality(unmatched),
    missing |-> Cardinality(unmatched),
    lines   |-> ReportLines(SortedKeys(unmatched), index) ]

Idle ==
  /\ m3u_map = << >>
  /\ unmatched_keys = {}
  /\ total_groups = 0
  /\ pending = {}
  /\ downloaded_epgs = << >>
  /\ next_epg = 1
  /\ source_to_dest_map = << >>
  /\ outfile = << >>
  /\ report = << >>
  /\ calls = << >>

Init ==
  /\ \E in \in Inputs : m3u_web = in.m3u /\ epg_web = in.epg
  \* an override is looked up for the keys of the playlist only
  /\ MANUAL_OVERRIDES \in { t \in OverrideTables : DOMAIN t \subseteq LabelKeys(m3u_web) }
  /\ pc = "start"
  /\ Idle
  /\ norm_in = << >> /\ norm_out = << >> /\ norm_again = << >> /\ norm_other = << >>
  /\ norm_pc = "off"

\* main, steps 1 and 2 up to the submission of the downloads
DownloadM3U ==
  /\ pc = "start"
  /\ IF m3u_web.status = "none"
     THEN /\ pc' = "aborted"
          /\ UNCHANGED << m3u_map, unmatched_keys, total_groups, pending >>
     ELSE /\ m3u_map' = ParseM3U(m3u_web.channels)
          /\ unmatched_keys' = DOMAIN m3u_map'
          /\ total_groups' = Cardinality(DOMAIN m3u_map')
          /\ pending' = 1..Len(EPG_URLS)
          /\ pc' = "download"
  /\ UNCHANGED << m3u_web, epg_web, MANUAL_OVERRIDES, downloaded_epgs, next_epg,
                  source_to_dest_map, outfile, report, calls >>
  /\ UNCHANGED normvars

\* one download completes and as_completed hands it to main, which keeps it
\* when it has data.  The pool has more workers than the model has feeds, so
\* every download is in flight at once.
FetchComplete(i) ==
  /\ pc = "download"
  /\ i \in pending
  /\ pending' = pending \ {i}
  /\ downloaded_epgs' = Collected(downloaded_epgs, EPG_URLS[i], epg_web[i])
  /\ UNCHANGED << m3u_web, epg_web, MANUAL_OVERRIDES, pc, m3u_map, unmatched_keys,
                  total_groups, next_epg, source_to_dest_map, outfile, report, calls >>
  /\ UNCHANGED normvars

\* main, step 3: the output is opened and the header written
OpenOutput ==
  /\ pc = "download"
  /\ pending = {}
  /\ outfile' = << Record("xmldecl", "-", "-", 0, << >>, "-"),
                   Record("tvopen", "-", "-", 0, << >>, "-") >>
  /\ next_epg' = 1
  /\ pc' = "process"
  /\ UNCHANGED << m3u_web, epg_web, MANUAL_OVERRIDES, m3u_map, unmatched_keys,
                  total_groups, pending, downloaded_epgs, source_to_dest_map, report, calls >>
  /\ UNCHANGED normvars

\* found = process_single_epg(...) with what it wrote, and the update of the
\* unmatched list
Merged(epg_data, r) ==
  /\ outfile' = outfile \o r.out
  /\ source_to_dest_map' = r.map
  /\ unmatched_keys' = Discard(unmatched_keys, r.found)
  /\ calls' = Append(calls, [ url |-> epg_data.url, before |-> unmatched_keys,
                              found |-> r.found ])

\* main, step 4: one turn of the loop over downloaded_epgs
ProcessFeed ==
  /\ pc = "process"
  /\ next_epg <= Len(downloaded_epgs)
  /\ LoopContinues(unmatched_keys)
  /\ \E order \in Orders(unmatched_keys) :
       Merged(downloaded_epgs[next_epg],
              process_single_epg(downloaded_epgs[next_epg], order, m3u_map,
                                 MANUAL_OVERRIDES, source_to_dest_map))
  /\ next_epg' = next_epg + 1
  /\ UNCHANGED << m3u_web, epg_web, MANUAL_OVERRIDES, pc, m3u_map, total_groups,
                  pending, downloaded_epgs, report >>
  /\ UNCHANGED normvars

\* the loop ends, by exhaustion or by the break, and the root is closed
CloseOutput ==
  /\ pc = "process"
  /\ next_epg > Len(downloaded_epgs) \/ ~LoopContinues(unmatched_keys)
  /\ outfile' = Append(outfile, Record("tvclose", "-", "-", 0, << >>, "-"))
  /\ pc' = "report"
  /\ UNCHANGED << m3u_web, epg_web, MANUAL_OVERRIDES, m3u_map, unmatched_keys,
                  total_groups, pending, downloaded_epgs, next_epg, source_to_dest_map,
                  report, calls >>
  /\ UNCHANGED normvars

\* main, step 5
WriteReport ==
  /\ pc = "report"
  /\ report' = << MissingReport(total_groups, unmatched_keys, m3u_map) >>
  /\ pc' = "done"
  /\ UNCHANGED << m3u_web, epg_web, MANUAL_OVERRIDES, m3u_map, unmatched_keys,
                  total_groups, pending, downloaded_epgs, next_epg, source_to_dest_map,
                  outfile, calls >>
  /\ UNCHANGED normvars

Next ==
  \/ DownloadM3U
  \/ \E i \in 1..Len(EPG_URLS) : FetchComplete(i)
  \/ OpenOutput
  \/ ProcessFeed
  \/ CloseOutput
  \/ WriteReport

Spec == Init /\ [][Next]_vars

\* main runs to its end: no step of it waits for anything but the downloads,
\* and each download ends, by data, error or timeout
FairSpec == Spec /\ WF_vars(Next)

(***************************************************************************)
(* The playlist text: the lines of the playlist and what main reads from   *)
(* them before it indexes an entry                                         *)
(***************************************************************************)
\* the text p is in the text s at position i
TextAt(s, p, i) ==
  /\ i >= 1
  /\ i + Len(p) - 1 <= Len(s)
  /\ \A d \in 1..Len(p) : s[i + d - 1] = p[d]

\* the positions of the text p in the text s
Places(s, p) == { i \in 1..Len(s) : TextAt(s, p, i) }

First(ps) == CHOOSE i \in ps : \A j \in ps : i <= j

Last(ps) == CHOOSE i \in ps : \A j \in ps : j <= i

\* s from position i on
From(s, i) == SubSeq(s, i, Len(s))

\* s.split(p)[0]
BeforeFirst(s, ps) == IF ps = {} THEN s ELSE SubSeq(s, 1, First(ps) - 1)

\* s.split(p)[1], for a text s that holds p
AfterFirst(s, p, ps) == From(s, First(ps) + Len(p))

\* s.rsplit(p, 1)[-1]
AfterLast(s, p, ps) == IF ps = {} THEN s ELSE From(s, Last(ps) + Len(p))

\* the positions of s that are not whitespace
Inked(s) == { i \in 1..Len(s) : ~IsSpace(s[i]) }

Between(s, ps) == IF ps = {} THEN << >> ELSE SubSeq(s, First(ps), Last(ps))

\* s.strip()
Strip(s) == Between(s, Inked(s))

ExtInf == << "#","E","X","T","I","N","F" >>

TvgIdAttr == << "t","v","g","-","i","d","=","\"" >>

Quote == << "\"" >>

Comma == << "," >>

\* line.startswith("#EXTINF") and 'tvg-id="' in line
IsEntry(line) == TextAt(line, ExtInf, 1) /\ Places(line, TvgIdAttr) # {}

\* the text up to the next quote
Quoted(rest) == BeforeFirst(rest, Places(rest, Quote))

\* line.split('tvg-id="')[1].split('"')[0]
TvgId(line) == Quoted(AfterFirst(line, TvgIdAttr, Places(line, TvgIdAttr)))

\* line.rsplit(',', 1)[-1].strip()
ChannelName(line) == Strip(AfterLast(line, Comma, Places(line, Comma)))

\* what main reads from the line of an entry
EntryOf(line) == [ tvg_id |-> TvgId(line), channel_name |-> ChannelName(line) ]

RECURSIVE EntriesOf(_, _)
\* the entries of the lines from line i on, in file order
EntriesOf(lines, i) ==
  IF i > Len(lines) THEN << >>
  ELSE (IF IsEntry(lines[i]) THEN << EntryOf(lines[i]) >> ELSE << >>)
       \o EntriesOf(lines, i + 1)

\* the loop over m3u_text.splitlines()
IndexLines(lines) == ParseM3U(EntriesOf(lines, 1))

\* the lines of the playlist texts: the header, two complete entries, an
\* entry without tvg-id, one with nothing after the last comma, one without
\* a comma, and one with an empty tvg-id
LinePool ==
  { << "#","E","X","T","M","3","U" >>,
    << "#","E","X","T","I","N","F",":","-","1"," ","t","v","g","-","i","d","=","\"","1","0","0","\"",",","a","b","c"," ","H","D" >>,
    << "#","E","X","T","I","N","F",":","-","1"," ","t","v","g","-","i","d","=","\"","1","0","1","\"",",","A","B","C" >>,
    << "#","E","X","T","I","N","F",":","-","1",",","a","b","c"," ","H","D" >>,
    << "#","E","X","T","I","N","F",":","-","1"," ","t","v","g","-","i","d","=","\"","1","0","1","\"",","," " >>,
    << "#","E","X","T","I","N","F",":","-","1"," ","t","v","g","-","i","d","=","\"","1","0","1","\"" >>,
    << "#","E","X","T","I","N","F",":","-","1"," ","t","v","g","-","i","d","=","\"","\"",",","A","B","C" >> }

\* the lines of a playlist text, at most
MaxLines == 2

\* the text is downloaded and decoded; m3u_web holds its lines
TextInit ==
  /\ \E lines \in SeqsUpTo(LinePool, MaxLines) : m3u_web = Doc("text", lines, << >>)
  /\ epg_web = [ i \in 1..Len(EPG_URLS) |-> NoData ]
  /\ MANUAL_OVERRIDES = << >>
  /\ pc = "text"
  /\ Idle
  /\ norm_in = << >> /\ norm_out = << >> /\ norm_again = << >> /\ norm_other = << >>
  /\ norm_pc = "off"

\* main, step 1 after the download: the index, the unmatched keys, the total
IndexText ==
  /\ pc = "text"
  /\ m3u_map' = IndexLines(m3u_web.channels)
  /\ unmatched_keys' = DOMAIN m3u_map'
  /\ total_groups' = Cardinality(DOMAIN m3u_map')
  /\ pc' = "indexed"
  /\ UNCHANGED << m3u_web, epg_web, MANUAL_OVERRIDES, pending, downloaded_epgs, next_epg,
                  source_to_dest_map, outfile, report, calls >>
  /\ UNCHANGED normvars

TextSpec == TextInit /\ [][IndexText]_vars

(***************************************************************************)
(* The scenario runs: main on a playlist and one feed drawn from the       *)
(* scenario names, the other feed failing                                  *)
(***************************************************************************)
\* the entries of the playlist and the channel records of the feed, at most
MaxScenario == 2

ScenarioEntry == [ tvg_id : SeqRange(TargetIDs), channel_name : ScenarioLabels ]

ScenarioChannel == [ id : SeqRange(SourceIDs), display_name : ScenarioNames ]

\* the playlists of the scenario runs; as in PlaylistDocs the first entry is
\* given the first TargetID
ScenarioPlaylists ==
  { PlaylistDoc(es) :
      es \in { x \in SeqsUpTo(ScenarioEntry, MaxScenario) :
                 x # << >> /\ x[1].tvg_id = TargetIDs[1] } }

ScenarioFeeds == { FeedDoc(cs) : cs \in SeqsUpTo(ScenarioChannel, MaxScenario) }

ScenarioInit ==
  /\ m3u_web \in ScenarioPlaylists
  /\ \E feed \in ScenarioFeeds : epg_web = << feed, NoData >>
  /\ MANUAL_OVERRIDES \in { t \in OverrideTables : DOMAIN t \subseteq LabelKeys(m3u_web) }
  /\ pc = "start"
  /\ Idle
  /\ norm_in = << >> /\ norm_out = << >> /\ norm_again = << >> /\ norm_other = << >>
  /\ norm_pc = "off"

ScenarioSpec == ScenarioInit /\ [][Next]_vars

(***************************************************************************)
(* normalize_name applied to a label, and to the key it returned           *)
(***************************************************************************)
\* the longest label
MaxLabelLen == 4

LabelChars == { "F", "R", ":", " ", "H", "D", "d", "_", "a" }

Labels == SeqsUpTo(LabelChars, MaxLabelLen)

NormInit ==
  /\ norm_in \in Labels
  /\ norm_out = << >> /\ norm_again = << >> /\ norm_other = << >> /\ norm_pc = "label"
  /\ m3u_web = NoData
  /\ epg_web = [ i \in 1..Len(EPG_URLS) |-> NoData ]
  /\ MANUAL_OVERRIDES = << >>
  /\ pc = "off"
  /\ Idle

Normalize ==
  /\ norm_pc = "label"
  /\ norm_out' = normalize_name(norm_in)
  /\ norm_pc' = "key"
  /\ UNCHANGED << norm_in, norm_again, norm_other >>
  /\ UNCHANGED runvars

NormalizeAgain ==
  /\ norm_pc = "key"
  /\ norm_again' = normalize_name(norm_out)
  /\ norm_pc' = "twice"
  /\ UNCHANGED << norm_in, norm_out, norm_other >>
  /\ UNCHANGED runvars

NormNext == Normalize \/ NormalizeAgain

NormSpec == NormInit /\ [][NormNext]_vars

(***************************************************************************)
(* normalize_name applied to two labels that differ in one character       *)
(***************************************************************************)
UpperOf == [ c \in SeqRange(LowerSeq) |-> UpperSeq[IndexOf(LowerSeq, c)] ]

\* the same letter in the other case
SwapCase(c) ==
  IF c \in UpperChars THEN LowerOf[c]
  ELSE IF c \in DOMAIN UpperOf THEN UpperOf[c] ELSE c

\* the label with the letter at position i in the other case
OtherCase(name, i) == [ n \in 1..Len(name) |-> IF n = i THEN SwapCase(name[n]) ELSE name[n] ]

\* the label without the character at position i
Without(name, i) == SubSeq(name, 1, i - 1) \o SubSeq(name, i + 1, Len(name))

\* the second label is normalised
NormalizeOther(other, kind) ==
  /\ norm_pc = "key"
  /\ norm_other' = other
  /\ norm_again' = normalize_name(other)
  /\ norm_pc' = kind
  /\ UNCHANGED << norm_in, norm_out >>
  /\ UNCHANGED runvars

\* a label that differs from the first in the case of one letter
CaseVariant(i) ==
  /\ i \in 1..Len(norm_in)
  /\ SwapCase(norm_in[i]) # norm_in[i]
  /\ NormalizeOther(OtherCase(norm_in, i), "case")

\* a label that differs from the first in one whitespace or punctuation
\* character, which it does not have
PunctVariant(i) ==
  /\ i \in 1..Len(norm_in)
  /\ ~IsAlnum(norm_in[i])
  /\ NormalizeOther(Without(norm_in, i), "punct")

VariantNext ==
  \/ Normalize
  \/ \E i \in 1..MaxLabelLen : CaseVariant(i)
  \/ \E i \in 1..MaxLabelLen : PunctVariant(i)

VariantSpec == NormInit /\ [][VariantNext]_vars

(***************************************************************************)
(* What the properties read from a state                                   *)
(***************************************************************************)
\* the position of a URL in EPG_URLS
Declared(url) == CHOOSE i \in 1..Len(EPG_URLS) : EPG_URLS[i] = url

\* the position of the call that processed a URL
CallOf(url) == CHOOSE c \in 1..Len(calls) : calls[c].url = url

Processed(url) == \E c \in 1..Len(calls) : calls[c].url = url

\* the records of one kind that a feed put into the output, in output order
RecordsOf(kind, url) == SelectSeq(outfile, LAMBDA r : r.kind = kind /\ r.feed = url)

\* the target ids of some records, in their order
IdsOf(records) == [ n \in 1..Len(records) |-> records[n].id ]

\* the channel records a feed emitted for a key
ChannelsFor(url, key) == SelectSeq(RecordsOf("channel", url), LAMBDA r : r.key = key)

\* the programme records a feed emitted for its programme i
ProgrammesFor(url, i) == SelectSeq(RecordsOf("programme", url), LAMBDA r : r.elem = i)

\* some feed emitted channel records for the key into this output
HasChannelRecords(out, key) ==
  \E n \in 1..Len(out) : out[n].kind = "channel" /\ out[n].key = key

\* the key resolved last to a SourceID among these channel records
LastKeyFor(records, src) ==
  records[CHOOSE n \in 1..Len(records) :
            /\ records[n].src = src
            /\ \A m \in (n + 1)..Len(records) : records[m].src # src].key

\* the feed of a URL can resolve the key
CanResolve(url, key) ==
  Resolve(key, temp_channel_storage(epg_web[Declared(url)].channels), MANUAL_OVERRIDES) # {}

\* the output is one root, opened once and closed once, around the records
Closed(out) ==
  /\ Len(out) >= 3
  /\ out[1].kind = "xmldecl"
  /\ out[2].kind = "tvopen"
  /\ out[Len(out)].kind = "tvclose"
  /\ \A n \in 3..(Len(out) - 1) : out[n].kind \in { "channel", "programme" }

(***************************************************************************)
(* C1                                                                      *)
(***************************************************************************)
\* C1: feeds are processed in the order EPG_URLS declares them: of two feeds
\* that were both processed, the one declared first was processed first,
\* whichever download completed first.
C1_DeclaredOrder ==
  \A c, d \in 1..Len(calls) :
    Declared(calls[c].url) < Declared(calls[d].url) => c < d

(***************************************************************************)
(* C2                                                                      *)
(***************************************************************************)
\* C2: monotonic resolution.  In every step after the playlist is indexed the
\* UnresolvedSet does not grow, and a channel record is only ever emitted for
\* a key that no earlier feed has emitted channel records for.
C2_MonotonicResolution ==
  [][ pc # "start" =>
        /\ Cardinality(unmatched_keys') <= Cardinality(unmatched_keys)
        /\ unmatched_keys' \subseteq unmatched_keys
        /\ \A n \in (Len(outfile) + 1)..Len(outfile') :
             outfile'[n].kind = "channel" => ~HasChannelRecords(outfile, outfile'[n].key) ]_vars

\* a second feed was processed that can resolve a key the first feed resolved
C2_Witness ==
  /\ Len(calls) = 2
  /\ \E k \in SeqRange(calls[1].found) :
       /\ CanResolve(calls[2].url, k)
       /\ HasChannelRecords(outfile, k)
       /\ k \notin unmatched_keys

(***************************************************************************)
(* C3                                                                      *)
(***************************************************************************)
\* the channel records a feed emitted for a key are one for each TargetID of
\* the key, in the order of the group
ChannelFanOut(url) ==
  \A k \in SeqRange(calls[CallOf(url)].found) :
    IdsOf(ChannelsFor(url, k)) = m3u_map[k].ids

\* the programme records of programme i of a feed are one for each TargetID
\* of the key
ProgrammeFanOut(url, i, key) == IdsOf(ProgrammesFor(url, i)) = m3u_map[key].ids

\* C3 as stated: fan-out completeness.  A key that a feed resolved has exactly
\* one channel record for each of its TargetIDs in that feed's output, and
\* every programme of the feed that references the matched source channel has
\* exactly one programme record for each TargetID of that key.
C3_FanOutComplete ==
  \A c \in 1..Len(calls) :
    /\ ChannelFanOut(calls[c].url)
    /\ \A n \in 1..Len(RecordsOf("channel", calls[c].url)) :
         \A i \in 1..Len(epg_web[Declared(calls[c].url)].programmes) :
           epg_web[Declared(calls[c].url)].programmes[i]
             = RecordsOf("channel", calls[c].url)[n].src
           => ProgrammeFanOut(calls[c].url, i, RecordsOf("channel", calls[c].url)[n].key)

\* C3 amended: the channel records are as stated; every programme of the feed
\* that references a matched source channel has exactly one programme record
\* for each TargetID of the key that was resolved last to that source channel
\* in this feed (last-resolution-wins when several keys resolve to it).
C3_FanOutLastResolution ==
  \A c \in 1..Len(calls) :
    /\ ChannelFanOut(calls[c].url)
    /\ \A n \in 1..Len(RecordsOf("channel", calls[c].url)) :
         \A i \in 1..Len(epg_web[Declared(calls[c].url)].programmes) :
           epg_web[Declared(calls[c].url)].programmes[i]
             = RecordsOf("channel", calls[c].url)[n].src
           => ProgrammeFanOut(calls[c].url, i,
                LastKeyFor(RecordsOf("channel", calls[c].url),
                           RecordsOf("channel", calls[c].url)[n].src))

\* a feed resolved a key of two TargetIDs and its programmes were fanned out
C3_Witness ==
  \E n, m \in 1..Len(outfile) :
    /\ outfile[n].kind = "channel"
    /\ Len(m3u_map[outfile[n].key].ids) = 2
    /\ outfile[m].kind = "programme"
    /\ outfile[m].feed = outfile[n].feed
    /\ outfile[m].src = outfile[n].src

(***************************************************************************)
(* C4                                                                      *)
(***************************************************************************)
\* C4: resolver priority.  When a feed is processed and an unresolved key has
\* an override whose SourceID belongs to a channel of that feed (one with a
\* display name), the key is resolved in that feed and the SourceID used is
\* the override's, whatever exact or fuzzy candidates the feed holds.
C4_OverrideUsed ==
  \A c \in 1..Len(calls) :
    \A k \in calls[c].before \cap DOMAIN MANUAL_OVERRIDES :
      (\E n \in 1..Len(epg_web[Declared(calls[c].url)].channels) :
         /\ epg_web[Declared(calls[c].url)].channels[n].id = MANUAL_OVERRIDES[k]
         /\ epg_web[Declared(calls[c].url)].channels[n].display_name # << >>)
      => /\ Len(ChannelsFor(calls[c].url, k)) > 0
         /\ \A n \in 1..Len(ChannelsFor(calls[c].url, k)) :
              ChannelsFor(calls[c].url, k)[n].src = MANUAL_OVERRIDES[k]

(***************************************************************************)
(* C5                                                                      *)
(***************************************************************************)
\* C5: early termination.  No call of process_single_epg is made with an
\* empty UnresolvedSet; when the set is empty the loop can only be left, and
\* the finished run has closed the output and written the report.
C5_EarlyTermination ==
  /\ \A c \in 1..Len(calls) : calls[c].before # {}
  /\ (pc = "process" /\ unmatched_keys = {}) => (ENABLED CloseOutput /\ ~ENABLED ProcessFeed)
  /\ pc = "done" => (Closed(outfile) /\ Len(report) = 1)

\* a finished run that left a downloaded feed unprocessed
C5_Witness ==
  /\ pc = "done"
  /\ unmatched_keys = {}
  /\ Len(calls) < Len(downloaded_epgs)
  /\ Closed(outfile)
  /\ Len(report) = 1

(***************************************************************************)
(* C6                                                                      *)
(***************************************************************************)
\* C6: the keys a call returns are exactly the keys it emitted channel records
\* for, whether it ended normally or in the except branch; so once the
\* playlist is indexed a key is in the UnresolvedSet exactly when no processed
\* feed has emitted channel records for it.
C6_ReturnedKeys ==
  /\ \A c \in 1..Len(calls) :
       SeqRange(calls[c].found)
         = { RecordsOf("channel", calls[c].url)[n].key :
               n \in 1..Len(RecordsOf("channel", calls[c].url)) }
  /\ pc \notin { "start", "aborted" } =>
       \A k \in DOMAIN m3u_map : k \in unmatched_keys <=> ~HasChannelRecords(outfile, k)

\* a call that ended in the except branch and a call that resolved a key
C6_Witness ==
  \E c, d \in 1..Len(calls) :
    /\ epg_web[Declared(calls[c].url)].status = "bad"
    /\ calls[c].found = << >>
    /\ calls[d].found # << >>
    /\ unmatched_keys # calls[d].before

(***************************************************************************)
(* C7                                                                      *)
(***************************************************************************)
\* main is not stuck: wherever it is before its end, its next step can be
\* taken (a download that has not completed will complete, by data, error or
\* timeout)
CanStep ==
  /\ pc = "start" => ENABLED DownloadM3U
  /\ pc = "download" => (pending # {} \/ ENABLED OpenOutput)
  /\ pc = "process" =>
       \/ next_epg <= Len(downloaded_epgs) /\ LoopContinues(unmatched_keys)
       \/ ENABLED CloseOutput
  /\ pc = "report" => ENABLED WriteReport

\* C7: feed failure is not fatal.  With the playlist obtained the run is never
\* aborted and is never stuck before it is done; when it is
\* done the output is one closed root and the report is written, a feed that
\* failed has no records in the output and resolved no key, every key that a
\* feed that succeeded can resolve has channel records, and every key without
\* channel records is listed in the report.
C7_FeedFailureNonFatal ==
  m3u_web.status # "none" =>
    /\ pc # "aborted"
    /\ CanStep
    /\ pc = "done" =>
         /\ Closed(outfile)
         /\ Len(report) = 1
         /\ \A i \in 1..Len(EPG_URLS) :
              epg_web[i].status # "ok" =>
                /\ \A n \in 1..Len(outfile) : outfile[n].feed # EPG_URLS[i]
                /\ \A c \in 1..Len(calls) : calls[c].url = EPG_URLS[i] => calls[c].found = << >>
         /\ \A k \in DOMAIN m3u_map :
              /\ (\E i \in 1..Len(EPG_URLS) :
                    epg_web[i].status = "ok" /\ CanResolve(EPG_URLS[i], k))
                 => HasChannelRecords(outfile, k)
              /\ ~HasChannelRecords(outfile, k)
                 => \E n \in 1..Len(report[1].lines) : report[1].lines[n].key = k

\* a finished run in which a feed failed, another feed's match is in the
\* output and a key is reported unresolved
C7_Witness ==
  /\ pc = "done"
  /\ \E i \in 1..Len(EPG_URLS) : epg_web[i].status # "ok"
  /\ \E n \in 1..Len(outfile) : outfile[n].kind = "channel"
  /\ Len(report) = 1
  /\ Len(report[1].lines) > 0

(***************************************************************************)
(* C8                                                                      *)
(***************************************************************************)
\* C8: a programme record is in the output only if the same feed emitted a
\* channel record for the SourceID it references, and the ResolutionMap holds
\* only SourceIDs that the latest call resolved.
C8_FeedScopedMap ==
  /\ \A n \in 1..Len(outfile) :
       outfile[n].kind = "programme" =>
         \E m \in 1..(n - 1) :
           /\ outfile[m].kind = "channel"
           /\ outfile[m].feed = outfile[n].feed
           /\ outfile[m].src = outfile[n].src
  /\ Len(calls) > 0 =>
       DOMAIN source_to_dest_map
         = { RecordsOf("channel", calls[Len(calls)].url)[n].src :
               n \in 1..Len(RecordsOf("channel", calls[Len(calls)].url)) }

\* the first feed resolved a SourceID and emitted its programmes; the second
\* feed, processed after it, has programmes of that SourceID and dropped them
C8_Witness ==
  /\ Len(calls) = 2
  /\ \E n \in 1..Len(outfile) :
       /\ outfile[n].kind = "programme"
       /\ outfile[n].feed = calls[1].url
       /\ \E i \in 1..Len(epg_web[Declared(calls[2].url)].programmes) :
            epg_web[Declared(calls[2].url)].programmes[i] = outfile[n].src
       /\ \A m \in 1..Len(outfile) :
            outfile[m].feed = calls[2].url => outfile[m].src # outfile[n].src

(***************************************************************************)
(* C9                                                                      *)
(***************************************************************************)
\* C9: emission order.  After the header every record is a record of a
\* processed feed; a record of a feed processed earlier precedes every record
\* of a feed processed later, and within one feed every channel record
\* precedes every programme record.
C9_EmissionOrder ==
  /\ \A n \in 1..Len(outfile) :
       outfile[n].kind \in { "channel", "programme" } => Processed(outfile[n].feed)
  /\ \A n, m \in 1..Len(outfile) :
       (/\ n < m
        /\ outfile[n].kind \in { "channel", "programme" }
        /\ outfile[m].kind \in { "channel", "programme" })
       => /\ CallOf(outfile[n].feed) <= CallOf(outfile[m].feed)
          /\ outfile[n].feed = outfile[m].feed
             => ~(outfile[n].kind = "programme" /\ outfile[m].kind = "channel")

\* the output holds channel and programme records of two feeds
C9_Witness ==
  /\ Len(calls) = 2
  /\ \A c \in 1..2 :
       /\ Len(RecordsOf("channel", calls[c].url)) > 0
       /\ Len(RecordsOf("programme", calls[c].url)) > 0

(***************************************************************************)
(* C10                                                                     *)
(***************************************************************************)
\* C10: normalisation is idempotent: the key of a key is the key itself.
C10_Idempotent == norm_pc = "twice" => norm_again = norm_out

(***************************************************************************)
(* C11                                                                     *)
(***************************************************************************)
\* normalize("FR: TF1 HD") = normalize("tf1")
SameKeyExample ==
  normalize_name(<< "F","R",":"," ","T","F","1"," ","H","D" >>)
    = normalize_name(<< "t","f","1" >>)

\* C11: normalisation is insensitive to case and to whitespace and
\* punctuation: two labels that differ only in the case of a letter, or only
\* in a whitespace or punctuation character, have the same key; and the labels
\* "FR: TF1 HD" and "tf1" have the same key.
C11_Insensitive ==
  /\ SameKeyExample
  /\ norm_pc \in { "case", "punct" } => norm_again = norm_out

(***************************************************************************)
(* C12                                                                     *)
(***************************************************************************)
\* a tier before the fuzzy tier resolves the key in the feed of a URL
ResolvedBefore(url, key) ==
  FirstFound(OverrideTier(key, temp_channel_storage(epg_web[Declared(url)].channels),
                          MANUAL_OVERRIDES),
             ExactTier(key, temp_channel_storage(epg_web[Declared(url)].channels)),
             {}) # {}

\* the stored names of the feed of a URL with their SourceIDs
StoredNames(url) ==
  { << temp_channel_storage(epg_web[Declared(url)].channels)[p].norm,
       temp_channel_storage(epg_web[Declared(url)].channels)[p].id >> :
      p \in 1..Len(temp_channel_storage(epg_web[Declared(url)].channels)) }

\* 200*M >= 85*T for SequenceMatcher(None, name, key)
MeetsCutoff(name, key) ==
  200 * MatchCount(name, key, 1, Len(name), 1, Len(key)) >= 85 * (Len(name) + Len(key))

\* 2*M/T of name a is no more than that of name b, against the key
NoCloser(a, b, key) ==
  MatchCount(a, key, 1, Len(a), 1, Len(key)) * (Len(b) + Len(key))
    <= MatchCount(b, key, 1, Len(b), 1, Len(key)) * (Len(a) + Len(key))

HasIdentifier(line) == Places(line, TvgIdAttr) # {} /\ TvgId(line) # << >>

\* the line of an entry has a label: text after a last separator
HasLabel(line) ==
  /\ Places(line, Comma) # {}
  /\ Strip(From(line, Last(Places(line, Comma)) + 1)) # << >>

\* an entry with its identifier and its label
Complete(line) == TextAt(line, ExtInf, 1) /\ HasIdentifier(line) /\ HasLabel(line)

\* C13: an entry of the playlist that is missing its identifier or its label
\* is skipped: the index, and with it the UnresolvedSet, is the index of the
\* entries that have both.
C13_IncompleteSkipped ==
  pc = "indexed" =>
    /\ m3u_map = IndexLines(SelectSeq(m3u_web.channels, Complete))
    /\ unmatched_keys = DOMAIN IndexLines(SelectSeq(m3u_web.channels, Complete))

(***************************************************************************)
(* C14                                                                     *)
(***************************************************************************)
\* the keys the report lists
ListedKeys(lines) == { lines[n].key : n \in 1..Len(lines) }

\* the report r agrees with the index and the unmatched keys main ended with
ReportAgrees(r, index, unmatched) ==
  /\ r.total = Cardinality(DOMAIN index)
  /\ r.matched + r.missing = r.total
  /\ r.missing = Cardinality(unmatched)
  /\ ListedKeys(r.lines) = unmatched
  /\ Len(r.lines) = Cardinality(unmatched)
  /\ \A n \in 1..Len(r.lines) :
       r.lines[n].name = index[r.lines[n].key].original_names[1]

NamedAs(channels, key) ==
  { i \in 1..Len(channels) :
      channels[i].display_name # << >> /\ Normalized(channels[i].display_name) = key }

\* the exact tier is the one that resolves the key in these channels
ExactResolves(channels, key) ==
  /\ OverrideTier(key, temp_channel_storage(channels), MANUAL_OVERRIDES) = {}
  /\ NamedAs(channels, key) # {}

\* the records are made for the SourceID of channel i and are copies of it
CopiesOf(records, channels, i) ==
  \A n \in 1..Len(records) : records[n].src = channels[i].id /\ records[n].elem = i

\* the feed is well formed in its identifiers: no two channel records share one
UniqueIds(channels) ==
  \A i, j \in 1..Len(channels) : channels[i].id = channels[j].id => i = j

\* C15: exact-match tie-break.  When the exact tier resolves a key in a feed
\* whose SourceIDs are unique, the SourceID is that of the channel named as the
\* key that the scan met last, and the channel records emitted for the key are
\* copies of that channel.
C15_ExactLastWriteWins ==
  \A c \in 1..Len(calls) :
    \A k \in calls[c].before :
      /\ UniqueIds(epg_web[Declared(calls[c].url)].channels)
      /\ ExactResolves(epg_web[Declared(calls[c].url)].channels, k)
      => /\ Len(ChannelsFor(calls[c].url, k)) > 0
         /\ CopiesOf(ChannelsFor(calls[c].url, k), epg_web[Declared(calls[c].url)].channels,
                     Last(NamedAs(epg_web[Declared(calls[c].url)].channels, k)))

\* two channels of a feed are named as one key, and the key was given the
\* copies of the second
C15_Witness ==
  \E c \in 1..Len(calls) :
    \E k \in calls[c].before :
      /\ UniqueIds(epg_web[Declared(calls[c].url)].channels)
      /\ ExactResolves(epg_web[Declared(calls[c].url)].channels, k)
      /\ NamedAs(epg_web[Declared(calls[c].url)].channels, k) = { 1, 2 }
      /\ Len(ChannelsFor(calls[c].url, k)) = 2
      /\ ChannelsFor(calls[c].url, k)[1].elem = 2

(***************************************************************************)
(* C16                                                                     *)
(***************************************************************************)
\* the SourceIDs the channel records were made for
SourcesOf(records) == { records[n].src : n \in 1..Len(records) }

\* the map of a feed holds, for each SourceID a key was resolved to, the
\* TargetIDs of the key resolved to it last, and the programmes of the feed
\* that reference the SourceID went to those TargetIDs and no others
HoldsLastResolution(map, url, programmes) ==
  /\ DOMAIN map = SourcesOf(RecordsOf("channel", url))
  /\ \A s \in DOMAIN map : map[s] = m3u_map[LastKeyFor(RecordsOf("channel", url), s)].ids
  /\ \A i \in 1..Len(programmes) :
       IdsOf(ProgrammesFor(url, i))
         = IF programmes[i] \in DOMAIN map THEN map[programmes[i]] ELSE << >>

\* C16: last-resolution-wins.  After a feed is processed, its ResolutionMap
\* holds for every SourceID the TargetID list of the key that was resolved to
\* it last in that feed, also when several keys resolved to it, and the
\* programme pass fanned the programmes of the SourceID out to that list only.
C16_LastResolutionWins ==
  calls # << >> =>
    HoldsLastResolution(source_to_dest_map, calls[Len(calls)].url,
                        epg_web[Declared(calls[Len(calls)].url)].programmes)

\* two keys of different TargetIDs were resolved to one SourceID in a feed,
\* and a programme of that SourceID went to the TargetIDs of the second only
C16_Witness ==
  /\ calls # << >>
  /\ \E n, m \in 1..Len(RecordsOf("channel", calls[Len(calls)].url)) :
       /\ n < m
       /\ RecordsOf("channel", calls[Len(calls)].url)[n].src
            = RecordsOf("channel", calls[Len(calls)].url)[m].src
       /\ RecordsOf("channel", calls[Len(calls)].url)[n].id = "100"
       /\ RecordsOf("channel", calls[Len(calls)].url)[m].id = "101"
       /\ source_to_dest_map[RecordsOf("channel", calls[Len(calls)].url)[m].src] = << "101" >>
       /\ \E p \in 1..Len(outfile) :
            /\ outfile[p].kind = "programme"
            /\ outfile[p].src = RecordsOf("channel", calls[Len(calls)].url)[m].src
            /\ outfile[p].id = "101"
       /\ ~\E p \in 1..Len(outfile) : outfile[p].kind = "programme" /\ outfile[p].id = "100"

(***************************************************************************)
(* C17                                                                     *)
(***************************************************************************)
\* the playlist entries whose label normalises to the key, in file order
EntriesNamed(entries, key) ==
  SelectSeq(entries, LAMBDA e : Normalized(e.channel_name) = key)

\* their TargetIDs
TvgIdsOf(es) == [ n \in 1..Len(es) |-> es[n].tvg_id ]

TargetIDsOf(entries, key) == TvgIdsOf(EntriesNamed(entries, key))

RECURSIVE FirstSeenFrom(_, _)
\* the members of a list from position i on that no earlier position holds
FirstSeenFrom(ts, i) ==
  IF i > Len(ts) THEN << >>
  ELSE (IF \E j \in 1..(i - 1) : ts[j] = ts[i] THEN << >> ELSE << ts[i] >>)
       \o FirstSeenFrom(ts, i + 1)

NoDuplicates(ts) == \A i, j \in 1..Len(ts) : ts[i] = ts[j] => i = j

\* C17: PlaylistGroup invariant.  Once the playlist is indexed, the TargetID
\* list of every group has no duplicates and holds the TargetIDs of the
\* entries of its key in first-seen file order, and the channel records a
\* feed emitted for a key carry the TargetIDs in that order.
C17_TargetIDsOrdered ==
  pc \in { "download", "process", "report", "done" } =>
    /\ \A k \in DOMAIN m3u_map :
         /\ NoDuplicates(m3u_map[k].ids)
         /\ m3u_map[k].ids
              = FirstSeenFrom(TargetIDsOf(m3u_web.channels, k), 1)
    /\ \A c \in 1..Len(calls) :
         \A k \in SeqRange(calls[c].found) :
           IdsOf(ChannelsFor(calls[c].url, k))
             = FirstSeenFrom(TargetIDsOf(m3u_web.channels, k), 1)

\* entries 100, 101, 100 of one key: the second 100 was coalesced, and a feed
\* emitted the channel records 100, 101 for the key
C17_Witness ==
  \E k \in DOMAIN m3u_map :
    /\ Len(m3u_web.channels) = 3
    /\ \A n \in 1..3 : Normalized(m3u_web.channels[n].channel_name) = k
    /\ m3u_web.channels[1].tvg_id = "100"
    /\ m3u_web.channels[2].tvg_id = "101"
    /\ m3u_web.channels[3].tvg_id = "100"
    /\ m3u_map[k].ids = << "100", "101" >>
    /\ \E c \in 1..Len(calls) : IdsOf(ChannelsFor(calls[c].url, k)) = << "100", "101" >>

(***************************************************************************)
(* C18                                                                     *)
(***************************************************************************)
\* the channel records of a feed that are copies of a channel whose display
\* name normalises to the empty key
CopiesOfUnnamed(url, channels) ==
  SelectSeq(RecordsOf("channel", url),
            LAMBDA r : Normalized(channels[r.elem].display_name) = << >>)

\* the empty label gives the empty key, and the empty key is no key of the
\* index and no member of unmatched_keys
EmptyKeyUnindexed ==
  /\ normalize_name(<< >>) = << >>
  /\ << >> \notin DOMAIN m3u_map
  /\ << >> \notin unmatched_keys

C19_OneChannelRecordPerTargetID ==
  \A n, m \in 1..Len(outfile) :
    /\ outfile[n].kind = "channel"
    /\ outfile[m].kind = "channel"
    /\ outfile[n].id = outfile[m].id
    => n = m

(***************************************************************************)
(* C20                                                                     *)
(***************************************************************************)
\* the result r of a call has the returned keys and the records, as sets,
\* that the call had
SameResult(r, found, records) ==
  /\ SeqRange(r.found) = SeqRange(found)
  /\ SeqRange(r.out) = SeqRange(records)

\* C20: the result of processing one feed does not depend on the order in
\* which the matching loop visits the unresolved keys: for the feed of every
\* call, the playlist index and the unresolved set the call was given, every
\* visiting order yields the set of returned keys and the set of channel and
\* programme records that the call yielded.
C20_OrderIndependent ==
  \A c \in 1..Len(calls) :
    \A order \in Orders(calls[c].before) :
      SameResult(process_single_epg(downloaded_epgs[c], order, m3u_map, MANUAL_OVERRIDES,
                                    << >>),
                 calls[c].found,
                 SelectSeq(outfile, LAMBDA r : r.kind \in { "channel", "programme" }
                                               /\ r.feed = calls[c].url))

=============================================================================
